---- MODULE Spec2Model ----
(***************************************************************************)
(* A model of scripts/fetch_downloads.py: the ingestion run (main) over    *)
(* the CSV store, with the PyPI, npm, GitHub and Discord adapters.         *)
(*                                                                         *)
(* Calendar days are integers (day numbers); an ISO date string is         *)
(* represented by the day number it denotes.  Upstream services are part   *)
(* of the environment: `upstream` holds what each service answers.         *)
(***************************************************************************)
EXTENDS Integers, Sequences, FiniteSets, TLC

VARIABLES
    config,     \* the loaded config.yaml
    upstream,   \* what the upstream services answer (environment)
    today,      \* date.today()
    csv,        \* data/downloads.csv: [exists, lines]
    pc,         \* position of main(): idle, pypi, npm, github, discord, persist
    idx,        \* index of the current element of the loop main() is in
    existing,   \* main(): the set returned by load_existing_entries()
    new_rows,   \* main(): the list of rows to append
    csv0,       \* history: the store when the current/last run started
    fetched,    \* history: the rows the adapters yielded in the current/last run
    failed,     \* history: the targets whose fetch failed in the current/last run
    lastRunDay, \* history: the day of the last completed run (0: none)
    prevRunDay, \* history: the day of the completed run before that (0: none)
    call,       \* a single call of one function: its arguments and its result
    discord_log, \* history: the requests sent to Discord in the current/last run
    writes,     \* history: how many times the current/last run opened the store to append
    processed   \* history: how many target loops' iterations the current/last run ended

vars == <<config, upstream, today, csv, pc, idx, existing, new_rows,
          csv0, fetched, failed, lastRunDay, prevRunDay, call, discord_log, writes,
          processed>>

(***************************************************************************)
(* Bounds of the model.                                                    *)
(***************************************************************************)
FirstDay == 3          \* the earliest value of today
MaxDaysElapsed == 1    \* today advances at most this many times

NoneStr == "<None>"    \* Python's None where a string is expected

(***************************************************************************)
(* Sequence helpers.                                                       *)
(***************************************************************************)
Range(s) == {s[i] : i \in DOMAIN s}

MapSeq(s, Op(_)) == [i \in DOMAIN s |-> Op(s[i])]

IsPrefix(s, t) == Len(s) <= Len(t) /\ SubSeq(t, 1, Len(s)) = s

Min(S) == CHOOSE m \in S : \A x \in S : m <= x

RECURSIVE SortAsc(_)
SortAsc(S) == IF S = {} THEN <<>> ELSE <<Min(S)>> \o SortAsc(S \ {Min(S)})

Reverse(s) == [i \in DOMAIN s |-> s[Len(s) + 1 - i]]

\* a dict: a function on the keys set so far
Put(m, k, v) == [x \in (DOMAIN m) \cup {k} |-> IF x = k THEN v ELSE m[x]]

(***************************************************************************)
(* The CSV store.  A line is the header or a data row with nf fields       *)
(* (4 for a row written by append_rows; fewer for a truncated one).        *)
(***************************************************************************)
CSV_HEADERS == [kind |-> "header", nf |-> 4, date |-> 0, package |-> "package",
                source |-> "source", downloads |-> 0]

RowLine(r) == [kind |-> "row", nf |-> 4, date |-> r.date, package |-> r.package,
               source |-> r.source, downloads |-> r.downloads]

Key(r) == <<r.date, r.package, r.source>>

\* csv.DictReader: a field the row lacks reads as None
DictRow(line) ==
    [date |-> line.date,
     package |-> IF line.nf >= 2 THEN line.package ELSE NoneStr,
     source |-> IF line.nf >= 3 THEN line.source ELSE NoneStr]

\* load_existing_entries: the first line names the columns, whatever it is;
\* row["date"] raises KeyError when the first line is not the header.
load_existing_entries(f) ==
    IF ~f.exists \/ f.lines = <<>>
    THEN [raised |-> FALSE, entries |-> {}]
    ELSE IF Head(f.lines).kind = "header"
         THEN [raised |-> FALSE,
               entries |-> {Key(DictRow(l)) : l \in Range(Tail(f.lines))}]
         ELSE [raised |-> Tail(f.lines) # <<>>, entries |-> {}]

\* append_rows: open(CSV_PATH, "a"); the header only when the file is new
\* (variant: the file opened with "w" instead of "a")
append_rows_mut_truncate(f, rows) ==
    [exists |-> TRUE, lines |-> <<CSV_HEADERS>> \o MapSeq(rows, RowLine)]

\* (variant: the header written at every call)
append_rows_mut_header_always(f, rows) ==
    [exists |-> TRUE, lines |-> f.lines \o <<CSV_HEADERS>> \o MapSeq(rows, RowLine)]

append_rows(f, rows) ==
    [exists |-> TRUE,
     lines |-> f.lines \o (IF f.exists THEN <<>> ELSE <<CSV_HEADERS>>)
                       \o MapSeq(rows, RowLine)]

\* the data rows of the store, in file order
DataLines(f) == SelectSeq(f.lines, LAMBDA l : l.kind = "row")

(***************************************************************************)
(* PyPI adapter.                                                           *)
(***************************************************************************)
PypiEntry(c, d, n) == [category |-> c, date |-> d, downloads |-> n]

Point(e) == [date |-> e.date, downloads |-> e.downloads]

\* an adapter call returns its results or raises; the try/except of the
\* adapter turns a failed request into the empty list
\* (variant: the request outside the try block)
fetch_pypi_downloads_mut_uncaught(resp) ==
    IF resp.status # "ok" THEN [raised |-> TRUE, results |-> <<>>]
    ELSE [raised |-> FALSE,
          results |-> MapSeq(SelectSeq(resp.data,
                                       LAMBDA e : e.category = "with_mirrors"), Point)]

fetch_pypi_downloads(resp) ==
    IF resp.status # "ok" THEN [raised |-> FALSE, results |-> <<>>]
    ELSE [raised |-> FALSE,
          results |-> MapSeq(SelectSeq(resp.data,
                                       LAMBDA e : e.category = "with_mirrors"), Point)]

(***************************************************************************)
(* npm adapter: the range today-365 .. today-1 is requested; the registry  *)
(* answers with its entries of that range.                                 *)
(***************************************************************************)
NpmRangeDays == 364

NpmEntry(d, n) == [day |-> d, downloads |-> n]

NpmPoint(e) == [date |-> e.day, downloads |-> e.downloads]

NpmRegistryAnswer(resp, start, end) ==
    SelectSeq(resp.downloads, LAMBDA e : start <= e.day /\ e.day <= end)

\* (variant: only the entry of the day before today is kept)
fetch_npm_downloads_mut_yesterday(resp, day) ==
    IF resp.status # "ok" THEN [raised |-> FALSE, results |-> <<>>]
    ELSE [raised |-> FALSE,
          results |-> MapSeq(NpmRegistryAnswer(resp, day - 1, day - 1), NpmPoint)]

fetch_npm_downloads(resp, day) ==
    LET end == day - 1
        start == end - NpmRangeDays
    IN  IF resp.status # "ok" THEN [raised |-> FALSE, results |-> <<>>]
        ELSE [raised |-> FALSE,
              results |-> MapSeq(NpmRegistryAnswer(resp, start, end), NpmPoint)]

(***************************************************************************)
(* main(): the merge of one target's results.  `existing` is the set       *)
(* loaded at the start of the run; main() never adds to it.                *)
(***************************************************************************)
\* (variant: no membership test)
merge_results_mut_nodedup(results, pkg, src, ex) ==
    [i \in DOMAIN results |->
        [date |-> results[i].date, package |-> pkg, source |-> src,
         downloads |-> results[i].downloads]]

\* (variant: the membership test on the date alone)
merge_results_mut_datekey(results, pkg, src, ex) ==
    LET kept == SelectSeq(results, LAMBDA r : \A k \in ex : k[1] # r.date)
    IN  [i \in DOMAIN kept |->
            [date |-> kept[i].date, package |-> pkg, source |-> src,
             downloads |-> kept[i].downloads]]

merge_results(results, pkg, src, ex) ==
    LET kept == SelectSeq(results, LAMBDA r : <<r.date, pkg, src>> \notin ex)
    IN  [i \in DOMAIN kept |->
            [date |-> kept[i].date, package |-> pkg, source |-> src,
             downloads |-> kept[i].downloads]]

(***************************************************************************)
(* GitHub adapter.  A listing endpoint holds a finite list of repositories *)
(* that it serves in pages of per_page; at page fail_page (0: never) it    *)
(* answers 404, 500 or a JSON body that is not a list.                     *)
(***************************************************************************)
per_page == 2          \* 100 in the source, scaled

Repo(n, o, s) == [full_name |-> n, owner_login |-> o, stargazers_count |-> s,
                  forks_count |-> 1, open_issues_count |-> 0]

Endpoint(items, fp, fk) == [items |-> items, fail_page |-> fp, fail_kind |-> fk]

\* the body of page p of a listing
PageOf(items, p) ==
    SubSeq(items, (p - 1) * per_page + 1,
           IF p * per_page <= Len(items) THEN p * per_page ELSE Len(items))

\* (variant: only an empty page ends the listing)
LastPage_mut_empty(batch) == batch = <<>>

\* line 150: len(batch) < 100
LastPage(batch) == Len(batch) < per_page

RECURSIVE PaginatedLoop(_, _, _)
PaginatedLoop(ep, page, all_items) ==
    IF ep.fail_page = page /\ ep.fail_kind = "404"
    THEN [tag |-> "none", items |-> <<>>, pages |-> page]
    ELSE IF ep.fail_page = page /\ ep.fail_kind = "500"
    THEN [tag |-> "raise", items |-> <<>>, pages |-> page]
    ELSE IF ep.fail_page = page /\ ep.fail_kind = "notlist"
    THEN [tag |-> "ok", items |-> all_items, pages |-> page]
    ELSE LET batch == PageOf(ep.items, page)
         IN  IF LastPage(batch)
             THEN [tag |-> "ok", items |-> all_items \o batch, pages |-> page]
             ELSE PaginatedLoop(ep, page + 1, all_items \o batch)

fetch_github_paginated(ep) == PaginatedLoop(ep, 1, <<>>)

\* str.lower() on the login names of the model
Lower(s) == IF s = "Octo" THEN "octo" ELSE s

fetch_github_user_login(v) ==
    IF ~v.token THEN NoneStr
    ELSE IF v.status # "ok" THEN NoneStr
    ELSE v.login

\* (variant: the organisation listing only, a 404 raised like any error)
fetch_repos_for_owner_mut_nofallback(owner, viewer_login, gh) ==
    LET o == fetch_github_paginated(gh.orgs[owner])
    IN  IF o.tag = "ok"
        THEN [tag |-> "ok", repos |-> o.items, via |-> "orgs", error |-> ""]
        ELSE [tag |-> "raise", repos |-> <<>>, via |-> "orgs", error |-> "HTTPError"]

fetch_repos_for_owner(owner, viewer_login, gh) ==
    LET asViewer == viewer_login # NoneStr /\ Lower(viewer_login) = Lower(owner)
        u == fetch_github_paginated(gh.user_repos)
        o == fetch_github_paginated(gh.orgs[owner])
        s == fetch_github_paginated(gh.users[owner])
    IN  IF asViewer /\ u.tag = "raise"
        THEN [tag |-> "raise", repos |-> <<>>, via |-> "user", error |-> "HTTPError"]
        ELSE IF asViewer /\ u.tag = "ok"
        THEN [tag |-> "ok",
              repos |-> SelectSeq(u.items,
                                  LAMBDA r : Lower(r.owner_login) = Lower(owner)),
              via |-> "user", error |-> ""]
        ELSE IF o.tag = "raise"
        THEN [tag |-> "raise", repos |-> <<>>, via |-> "orgs", error |-> "HTTPError"]
        ELSE IF o.tag = "ok"
        THEN [tag |-> "ok", repos |-> o.items, via |-> "orgs", error |-> ""]
        ELSE IF s.tag = "raise"
        THEN [tag |-> "raise", repos |-> <<>>, via |-> "users", error |-> "HTTPError"]
        ELSE IF s.tag = "ok"
        THEN [tag |-> "ok", repos |-> s.items, via |-> "users", error |-> ""]
        ELSE [tag |-> "raise", repos |-> <<>>, via |-> "none", error |-> "RuntimeError"]

fetch_repo_by_full_name(resp) ==
    IF resp.status = "ok" THEN [tag |-> "ok", repo |-> resp.repo]
    ELSE [tag |-> "raise", repo |-> resp.repo]

\* the names with a "/" are repository full names
RepoNames == {"octo/app", "octo/lib", "octo/zed"}

SortedRepoNames == <<"octo/app", "octo/lib", "octo/zed">>

GhCfg(k, owners, repos, items) ==
    [kind |-> k, owners |-> owners, repos |-> repos, items |-> items]

parse_github_config(g) ==
    IF g.kind = "dict" THEN [owners |-> g.owners, repos |-> g.repos]
    ELSE IF g.kind = "list"
    THEN [owners |-> SelectSeq(g.items, LAMBDA x : x \notin RepoNames),
          repos |-> SelectSeq(g.items, LAMBDA x : x \in RepoNames)]
    ELSE [owners |-> <<>>, repos |-> <<>>]

\* for repo in repos: repos_by_name[full_name] = repo
RECURSIVE AddRepos(_, _)
AddRepos(by_name, repos) ==
    IF repos = <<>> THEN by_name
    ELSE AddRepos(Put(by_name, Head(repos).full_name, Head(repos)), Tail(repos))

RECURSIVE OwnersLoop(_, _, _, _)
OwnersLoop(owners, viewer_login, gh, by_name) ==
    IF owners = <<>> THEN by_name
    ELSE LET r == fetch_repos_for_owner(Head(owners), viewer_login, gh)
         IN  OwnersLoop(Tail(owners), viewer_login, gh,
                        IF r.tag = "raise" THEN by_name ELSE AddRepos(by_name, r.repos))

RECURSIVE ExplicitLoop(_, _, _)
ExplicitLoop(names, gh, by_name) ==
    IF names = <<>> THEN by_name
    ELSE LET n == Head(names)
             r == fetch_repo_by_full_name(gh.repos[n])
         IN  ExplicitLoop(Tail(names), gh,
                          IF n \in DOMAIN by_name \/ r.tag = "raise" THEN by_name
                          ELSE Put(by_name, n, r.repo))

StatRows(day, n, repo) ==
    << [date |-> day, package |-> n, source |-> "github_stars",
        downloads |-> repo.stargazers_count],
       [date |-> day, package |-> n, source |-> "github_forks",
        downloads |-> repo.forks_count],
       [date |-> day, package |-> n, source |-> "github_open_issues",
        downloads |-> repo.open_issues_count] >>

RECURSIVE RowsOf(_, _, _)
RowsOf(day, names, by_name) ==
    IF names = <<>> THEN <<>>
    ELSE StatRows(day, Head(names), by_name[Head(names)])
         \o RowsOf(day, Tail(names), by_name)

\* (variant: rows for each listing and each explicit repository in turn,
\* with no dict of names in between)
RECURSIVE ListingRows(_, _)
ListingRows(day, repos) ==
    IF repos = <<>> THEN <<>>
    ELSE StatRows(day, Head(repos).full_name, Head(repos)) \o ListingRows(day, Tail(repos))

RECURSIVE OwnersRows(_, _, _, _)
OwnersRows(day, owners, viewer_login, gh) ==
    IF owners = <<>> THEN <<>>
    ELSE ListingRows(day, fetch_repos_for_owner(Head(owners), viewer_login, gh).repos)
         \o OwnersRows(day, Tail(owners), viewer_login, gh)

RECURSIVE ExplicitRows(_, _, _)
ExplicitRows(day, names, gh) ==
    IF names = <<>> THEN <<>>
    ELSE (IF gh.repos[Head(names)].status = "ok"
          THEN StatRows(day, Head(names), gh.repos[Head(names)].repo) ELSE <<>>)
         \o ExplicitRows(day, Tail(names), gh)

fetch_github_repo_stats_mut_nodict(g, day, gh) ==
    LET parsed == parse_github_config(g)
    IN  OwnersRows(day, parsed.owners, fetch_github_user_login(gh.viewer), gh)
        \o ExplicitRows(day, parsed.repos, gh)

fetch_github_repo_stats(g, day, gh) ==
    LET parsed == parse_github_config(g)
        viewer_login == fetch_github_user_login(gh.viewer)
        listed == OwnersLoop(parsed.owners, viewer_login, gh, <<>>)
        by_name == ExplicitLoop(parsed.repos, gh, listed)
    IN  IF parsed.owners = <<>> /\ parsed.repos = <<>> THEN <<>>
        ELSE RowsOf(day, SelectSeq(SortedRepoNames, LAMBDA n : n \in DOMAIN by_name),
                    by_name)

(***************************************************************************)
(* Discord adapter.  Time is in ticks ("ms"), MsPerDay of them a day; a    *)
(* snowflake is (ms - DISCORD_EPOCH) shifted left by SnowflakeShift bits,  *)
(* plus the low bits the service adds.                                     *)
(***************************************************************************)
MsPerDay == 2          \* 86400000 in reality, scaled

SnowflakeShift == 1    \* 22 in the source, scaled

DISCORD_EPOCH == 2     \* 1420070400000 in the source, scaled: day 1, 00:00 UTC

backfill_days == 2     \* 90 in the source, scaled

page_limit == 2        \* 100 in the source, scaled

\* the offset of local time from UTC, in ticks (datetime.timestamp and
\* datetime.fromtimestamp use the local zone)
LocalOffset == 0

Pow2(n) == 2 ^ n

\* _dt.datetime.combine(dt, time.min).timestamp() * 1000
TimestampMs(d) == d * MsPerDay - LocalOffset

\* _dt.datetime.fromtimestamp(ts_ms / 1000).date()
LocalDate(ts_ms) == (ts_ms + LocalOffset) \div MsPerDay

\* (variant: the subtraction the other way round)
snowflake_from_datetime_mut_reversed(d) ==
    (DISCORD_EPOCH - TimestampMs(d)) * Pow2(SnowflakeShift)

snowflake_from_datetime(d) == (TimestampMs(d) - DISCORD_EPOCH) * Pow2(SnowflakeShift)

date_from_snowflake(id) == LocalDate((id \div Pow2(SnowflakeShift)) + DISCORD_EPOCH)

\* (variant: headers built without the token check)
discord_headers_mut_anonymous(token) == "Bot"

discord_headers(token) == IF token THEN "Bot" ELSE NoneStr

\* GET /channels/{id}/messages?after=..&limit=..: the `limit` oldest messages
\* newer than `after`, in the order the service uses
MessagesAnswer(hist, order, after, page) ==
    LET newer == SortAsc({m \in hist.msgs : m > after})
        batch == SubSeq(newer, 1, IF Len(newer) < page_limit THEN Len(newer)
                                  ELSE page_limit)
    IN  IF hist.fail_page = page THEN [status |-> hist.fail_kind, msgs |-> <<>>]
        ELSE [status |-> "ok",
              msgs |-> IF order = "desc" THEN Reverse(batch) ELSE batch]

\* messages_by_date[msg_date] += 1 on a defaultdict(int)
Incr(m, d) == IF d \in DOMAIN m THEN [m EXCEPT ![d] = @ + 1] ELSE Put(m, d, 1)

\* (variant: every message is counted, whatever its day)
RECURSIVE Bucket_mut_all(_, _, _)
Bucket_mut_all(msgs, days_needed, by_date) ==
    IF msgs = <<>> THEN by_date
    ELSE Bucket_mut_all(Tail(msgs), days_needed,
                        Incr(by_date, date_from_snowflake(Head(msgs))))

RECURSIVE Bucket(_, _, _)
Bucket(msgs, days_needed, by_date) ==
    IF msgs = <<>> THEN by_date
    ELSE Bucket(Tail(msgs), days_needed,
                IF date_from_snowflake(Head(msgs)) \in days_needed
                THEN Incr(by_date, date_from_snowflake(Head(msgs)))
                ELSE by_date)

\* (variant: the cursor is not moved)
NextCursor_mut_stuck(msgs, after) == after

\* line 369: after = msgs[-1]["id"]
NextCursor(msgs, after) == msgs[Len(msgs)]

\* the while loop of one channel; 403 breaks, any other error is caught by
\* the except clause: both leave what was counted so far
RECURSIVE ChannelLoop(_, _, _, _, _, _, _)
ChannelLoop(ch_id, hist, order, after, page, days_needed, acc) ==
    LET resp == MessagesAnswer(hist, order, after, page)
        req == [kind |-> "messages", channel |-> ch_id, after |-> after,
                status |-> resp.status]
        counted == Bucket(resp.msgs, days_needed, acc.by_date)
    IN  IF resp.status # "ok" \/ resp.msgs = <<>>
        THEN [by_date |-> acc.by_date, requests |-> Append(acc.requests, req)]
        ELSE IF Len(resp.msgs) < page_limit
        THEN [by_date |-> counted, requests |-> Append(acc.requests, req)]
        ELSE ChannelLoop(ch_id, hist, order, NextCursor(resp.msgs, after), page + 1,
                         days_needed,
                         [by_date |-> counted, requests |-> Append(acc.requests, req)])

text_channel_types == {0, 5}

RECURSIVE ChannelsLoop(_, _, _, _, _)
ChannelsLoop(channels, gw, after, days_needed, acc) ==
    IF channels = <<>> THEN acc
    ELSE LET ch == Head(channels)
         IN  ChannelsLoop(Tail(channels), gw, after, days_needed,
                 IF ch.type \notin text_channel_types THEN acc
                 ELSE ChannelLoop(ch.id, gw.history[ch.id], gw.order, after, 1,
                                  days_needed, acc))

\* messages_by_date[day] = 0 for the days needed that have no count
\* (variant: no fill)
ZeroFill_mut_skip(by_date, days_needed) == by_date

ZeroFill(by_date, days_needed) ==
    [d \in (DOMAIN by_date) \cup days_needed |->
        IF d \in DOMAIN by_date THEN by_date[d] ELSE 0]

\* (variant: the store is not consulted)
DaysNeeded_mut_all(name, ex, day) == (day - backfill_days) .. (day - 1)

DaysNeeded(name, ex, day) ==
    {d \in (day - backfill_days) .. (day - 1) :
        d < day /\ <<d, name, "discord_messages">> \notin ex}

DiscordResult(tag, name, members, none, by_date, requests) ==
    [tag |-> tag, name |-> name, members |-> members, messages_none |-> none,
     messages_by_date |-> by_date, requests |-> requests]

\* a request of the guild or of its channel list, as the log records it
Request(kind, status) ==
    [kind |-> kind, channel |-> NoneStr, after |-> 0, status |-> status]

fetch_discord_stats(gw, token, ex, day) ==
    LET days_needed == DaysNeeded(gw.name, ex, day)
        after_snowflake == snowflake_from_datetime(Min(days_needed))
        guild_req == Request("guild", gw.guild_status)
        channels_req == Request("channels", gw.channels_status)
        counted == ChannelsLoop(gw.channels, gw, after_snowflake, days_needed,
                                [by_date |-> <<>>,
                                 requests |-> <<guild_req, channels_req>>])
    IN  IF discord_headers(token) = NoneStr
        THEN DiscordResult("none", NoneStr, 0, TRUE, <<>>, <<>>)
        ELSE IF gw.guild_status # "ok"
        THEN DiscordResult("none", NoneStr, 0, TRUE, <<>>, <<guild_req>>)
        ELSE IF days_needed = {}
        THEN DiscordResult("ok", gw.name, gw.members, FALSE, <<>>, <<guild_req>>)
        ELSE IF gw.channels_status # "ok"
        THEN DiscordResult("ok", gw.name, gw.members, TRUE, <<>>,
                           <<guild_req, channels_req>>)
        ELSE DiscordResult("ok", gw.name, gw.members, FALSE,
                           ZeroFill(counted.by_date, days_needed), counted.requests)

\* main(): the rows of one guild's result that are not in `existing`
MemberRows(result, day, ex) ==
    IF <<day, result.name, "discord_members">> \in ex THEN <<>>
    ELSE << [date |-> day, package |-> result.name, source |-> "discord_members",
             downloads |-> result.members] >>

MessageRows(result, ex) ==
    LET days == SortAsc(DOMAIN result.messages_by_date)
        kept == SelectSeq(days,
                    LAMBDA d : <<d, result.name, "discord_messages">> \notin ex)
    IN  IF result.messages_none THEN <<>>
        ELSE [i \in DOMAIN kept |->
                [date |-> kept[i], package |-> result.name,
                 source |-> "discord_messages",
                 downloads |-> result.messages_by_date[kept[i]]]]

merge_discord(result, day, ex) ==
    IF result.tag # "ok" THEN <<>>
    ELSE MemberRows(result, day, ex) \o MessageRows(result, ex)

(***************************************************************************)
(* The environment the runs are checked in: the configurations, the        *)
(* answers of the upstream services and the stores a first run may find.   *)
(***************************************************************************)
Packages == {"acme"}

GuildIds == {"g1", "g2"}

Owners == {"octo"}

\* --- PyPI and npm answers
PypiResponses ==
    { [status |-> "error", data |-> <<>>],
      [status |-> "ok", data |-> <<>>],
      [status |-> "ok",
       data |-> << PypiEntry("with_mirrors", 1, 100),
                   PypiEntry("without_mirrors", 1, 90),
                   PypiEntry("with_mirrors", 2, 150) >>],
      [status |-> "ok",
       data |-> << PypiEntry("with_mirrors", 2, 150),
                   PypiEntry("with_mirrors", 2, 150) >>] }

NpmResponses ==
    { [status |-> "error", downloads |-> <<>>],
      [status |-> "ok", downloads |-> <<>>],
      [status |-> "ok", downloads |-> << NpmEntry(1, 42) >>],
      [status |-> "ok", downloads |-> << NpmEntry(1, 42), NpmEntry(2, 0),
                                         NpmEntry(3, 7) >>] }

\* --- GitHub answers
RepoApp == Repo("octo/app", "octo", 7)

RepoLib == Repo("octo/lib", "octo", 3)

RepoZed == Repo("octo/zed", "Octo", 5)

RepoAlien == Repo("octo/zed", "alien", 9)

NoToken == [token |-> FALSE, status |-> "ok", login |-> NoneStr]

AsOcto == [token |-> TRUE, status |-> "ok", login |-> "Octo"]

NotFound == Endpoint(<<>>, 1, "404")

GhWorld(viewer, user_repos, org, user, repo) ==
    [viewer |-> viewer, user_repos |-> user_repos,
     orgs |-> [o \in Owners |-> org], users |-> [o \in Owners |-> user],
     repos |-> [n \in RepoNames |-> repo]]

RepoOk == [status |-> "ok", repo |-> Repo("octo/app", "octo", 8)]

RepoError == [status |-> "error", repo |-> Repo("octo/app", "octo", 0)]

OwnerListings ==
    { <<NoToken, NotFound, Endpoint(<<RepoApp, RepoLib, RepoZed>>, 0, "404"), NotFound>>,
      <<NoToken, NotFound, NotFound, Endpoint(<<RepoApp>>, 0, "404")>>,
      <<NoToken, NotFound, NotFound, NotFound>>,
      <<NoToken, NotFound, Endpoint(<<RepoApp, RepoLib, RepoZed>>, 2, "500"), NotFound>>,
      <<AsOcto, Endpoint(<<RepoApp, RepoAlien>>, 0, "404"), NotFound, NotFound>> }

DefaultGithub == GhWorld(NoToken, NotFound, NotFound, NotFound, RepoError)

GithubWorlds(g) ==
    LET parsed == parse_github_config(g)
    IN  { GhWorld(l[1], l[2], l[3], l[4], r) :
            l \in (IF parsed.owners = <<>> THEN {<<NoToken, NotFound, NotFound, NotFound>>}
                   ELSE OwnerListings),
            r \in (IF parsed.repos = <<>> THEN {RepoError} ELSE {RepoOk, RepoError}) }

\* --- Discord answers
\* the snowflake of a message sent on local day d, at tick t of the day,
\* with low bits `low`
MessageId(d, t, low) ==
    ((d * MsPerDay + t - LocalOffset) - DISCORD_EPOCH) * Pow2(SnowflakeShift) + low

History(msgs, fp, fk) == [msgs |-> msgs, fail_page |-> fp, fail_kind |-> fk]

Channel(id, type) == [id |-> id, type |-> type]

ChannelIds == {"c1", "c2"}

TwoChannels == << Channel("c1", 0), Channel("c2", 2) >>

SomeMessages ==
    { MessageId(FirstDay - 2, 0, 0), MessageId(FirstDay - 2, 0, 1),
      MessageId(FirstDay - 2, 1, 0), MessageId(FirstDay, 0, 0) }

\* a history of more than a page, none of it at the very start of a day
BusyMessages ==
    { MessageId(FirstDay - 2, 0, 1), MessageId(FirstDay - 2, 1, 0),
      MessageId(FirstDay - 2, 1, 1), MessageId(FirstDay - 1, 0, 1) }

GuildWorld(gs, name, members, cs, hist, order) ==
    [guild_status |-> gs, name |-> name, members |-> members,
     channels_status |-> cs, channels |-> TwoChannels,
     history |-> [c \in ChannelIds |-> IF c = "c1" THEN hist ELSE History({}, 0, "403")],
     order |-> order]

GuildDown == GuildWorld("error", NoneStr, 0, "error", History({}, 0, "403"), "desc")

GuildWorlds(g) ==
    IF g = "g1"
    THEN { GuildDown,
           GuildWorld("ok", "Guild", 10, "error", History({}, 0, "403"), "desc"),
           GuildWorld("ok", "Guild", 10, "ok", History({}, 0, "403"), "desc"),
           GuildWorld("ok", "Guild", 10, "ok", History(SomeMessages, 0, "403"), "desc"),
           GuildWorld("ok", "Guild", 10, "ok", History(SomeMessages, 0, "403"), "asc"),
           GuildWorld("ok", "Guild", 10, "ok", History(BusyMessages, 0, "403"), "desc"),
           GuildWorld("ok", "Guild", 10, "ok", History(SomeMessages, 1, "error"), "desc"),
           GuildWorld("ok", "Guild", 10, "ok", History(SomeMessages, 2, "403"), "asc") }
    ELSE { GuildDown,
           GuildWorld("ok", "Guild", 10, "ok", History({}, 0, "403"), "desc"),
           GuildWorld("ok", "Other", 4, "ok", History(SomeMessages, 0, "403"), "asc") }

DiscordWorlds(guilds) ==
    IF guilds = <<>>
    THEN { [token |-> FALSE, guilds |-> [g \in GuildIds |-> GuildDown]] }
    ELSE { [token |-> FALSE, guilds |-> [g \in GuildIds |-> GuildDown]] }
         \cup { [token |-> TRUE, guilds |-> w] :
                  w \in { v \in [GuildIds -> UNION {GuildWorlds(g) : g \in GuildIds}] :
                            \A g \in GuildIds :
                               IF g \in Range(guilds) THEN v[g] \in GuildWorlds(g)
                               ELSE v[g] = GuildDown } }

\* --- configurations
NoGithub == GhCfg("none", <<>>, <<>>, <<>>)

Cfg(pypi, npm, github, discord) ==
    [pypi |-> pypi, npm |-> npm, github |-> github, discord |-> discord]

Configs ==
    { Cfg(<<"acme">>, <<>>, NoGithub, <<>>),
      Cfg(<<"acme", "acme">>, <<>>, NoGithub, <<>>),
      Cfg(<<"acme">>, <<"acme">>, NoGithub, <<>>),
      Cfg(<<>>, <<"acme">>, NoGithub, <<>>),
      Cfg(<<>>, <<>>, GhCfg("dict", <<"octo">>, <<>>, <<>>), <<>>),
      Cfg(<<>>, <<>>, GhCfg("dict", <<>>, <<"octo/app">>, <<>>), <<>>),
      Cfg(<<>>, <<>>, GhCfg("list", <<>>, <<>>, <<"octo", "octo/app">>), <<>>),
      Cfg(<<>>, <<"acme">>, GhCfg("dict", <<"octo">>, <<>>, <<>>), <<>>),
      Cfg(<<>>, <<>>, NoGithub, <<"g1">>),
      Cfg(<<>>, <<>>, NoGithub, <<"g1", "g2">>),
      Cfg(<<"acme">>, <<>>, NoGithub, <<"g1">>) }

\* the answers that matter to a configuration (a service that is not
\* configured is never asked)
Upstreams(c) ==
    { [pypi |-> [p \in Packages |-> a], npm |-> [p \in Packages |-> b],
       github |-> g, discord |-> d] :
         a \in (IF c.pypi = <<>> THEN {[status |-> "error", data |-> <<>>]}
                ELSE PypiResponses),
         b \in (IF c.npm = <<>> THEN {[status |-> "error", downloads |-> <<>>]}
                ELSE NpmResponses),
         g \in GithubWorlds(c.github),
         d \in DiscordWorlds(c.discord) }

\* --- the stores a first run may find: none, or what earlier runs wrote
Row(d, p, s, n) == [date |-> d, package |-> p, source |-> s, downloads |-> n]

NoStore == [exists |-> FALSE, lines |-> <<>>]

InitialStores ==
    { NoStore,
      append_rows(NoStore, << Row(1, "acme", "pypi", 100) >>),
      append_rows(NoStore, << Row(FirstDay - 1, "Guild", "discord_messages", 5),
                              Row(1, "acme", "npm", 41) >>) }

(***************************************************************************)
(* main()                                                                  *)
(***************************************************************************)
Stopped == pc \in {"idle", "done", "aborted", "killed"}

\* the loop main() enters after the one named
PhaseAfter(phase) ==
    IF phase = "load" /\ config.pypi # <<>> THEN "pypi"
    ELSE IF phase \in {"load", "pypi"} /\ config.npm # <<>> THEN "npm"
    ELSE IF phase \in {"load", "pypi", "npm"} THEN "github"
    ELSE IF phase = "github" /\ config.discord # <<>> THEN "discord"
    ELSE "persist"

Advance(phase, list) ==
    IF idx < Len(list) THEN pc' = phase /\ idx' = idx + 1
    ELSE pc' = PhaseAfter(phase) /\ idx' = 1

TypeOK ==
    /\ pc \in {"idle", "pypi", "npm", "github", "discord", "persist", "done", "aborted",
              "killed"}
    /\ today \in FirstDay .. (FirstDay + MaxDaysElapsed)
    /\ csv.exists \in BOOLEAN

NoCall == [fn |-> "none"]

Init ==
    /\ config \in Configs
    /\ upstream \in Upstreams(config)
    /\ today = FirstDay
    /\ csv \in InitialStores
    /\ pc = "idle"
    /\ idx = 1
    /\ existing = {}
    /\ new_rows = <<>>
    /\ csv0 = csv
    /\ fetched = {}
    /\ failed = {}
    /\ lastRunDay = 0
    /\ prevRunDay = 0
    /\ call = NoCall
    /\ discord_log = <<>>
    /\ writes = 0
    /\ processed = 0

\* lines 393-395: load_config(), load_existing_entries(); an exception of
\* the load ends the process
StartRun ==
    /\ Stopped
    /\ LET loaded == load_existing_entries(csv)
       IN  IF loaded.raised
           THEN /\ pc' = "aborted"
                /\ existing' = {}
           ELSE /\ pc' = PhaseAfter("load")
                /\ existing' = loaded.entries
    /\ idx' = 1
    /\ new_rows' = <<>>
    /\ csv0' = csv
    /\ fetched' = {}
    /\ failed' = {}
    /\ discord_log' = <<>>
    /\ writes' = 0
    /\ processed' = 0
    /\ UNCHANGED <<config, upstream, today, csv, lastRunDay, prevRunDay, call>>

\* lines 409-422: one iteration of the PyPI loop
MergePypi ==
    /\ pc = "pypi"
    /\ LET pkg == config.pypi[idx]
           resp == upstream.pypi[pkg]
           got == fetch_pypi_downloads(resp)
       IN  /\ new_rows' = new_rows \o merge_results(got.results, pkg, "pypi", existing)
           /\ fetched' = fetched \cup
                  {Row(r.date, pkg, "pypi", r.downloads) : r \in Range(got.results)}
           /\ failed' = IF resp.status = "ok" THEN failed
                        ELSE failed \cup {<<"pypi", pkg>>}
           /\ IF got.raised THEN pc' = "aborted" /\ idx' = idx
              ELSE Advance("pypi", config.pypi)
    /\ processed' = processed + 1
    /\ UNCHANGED <<config, upstream, today, csv, existing, csv0, lastRunDay, prevRunDay, call,
                   discord_log, writes>>

\* lines 424-437: one iteration of the npm loop
MergeNpm ==
    /\ pc = "npm"
    /\ LET pkg == config.npm[idx]
           resp == upstream.npm[pkg]
           got == fetch_npm_downloads(resp, today)
       IN  /\ new_rows' = new_rows \o merge_results(got.results, pkg, "npm", existing)
           /\ fetched' = fetched \cup
                  {Row(r.date, pkg, "npm", r.downloads) : r \in Range(got.results)}
           /\ failed' = IF resp.status = "ok" THEN failed
                        ELSE failed \cup {<<"npm", pkg>>}
           /\ IF got.raised THEN pc' = "aborted" /\ idx' = idx
              ELSE Advance("npm", config.npm)
    /\ processed' = processed + 1
    /\ UNCHANGED <<config, upstream, today, csv, existing, csv0, lastRunDay, prevRunDay, call,
                   discord_log, writes>>

\* the GitHub targets whose fetch raised (both are caught in the adapter)
GithubFailures(g, gh) ==
    LET parsed == parse_github_config(g)
        viewer_login == fetch_github_user_login(gh.viewer)
    IN  { <<"github_owner", o>> : o \in
            {x \in Range(parsed.owners) :
                fetch_repos_for_owner(x, viewer_login, gh).tag = "raise"} }
        \cup
        { <<"github_repo", n>> : n \in
            {x \in Range(parsed.repos) : gh.repos[x].status # "ok"} }

\* lines 439-447: the GitHub rows
merge_rows(rows, ex) == SelectSeq(rows, LAMBDA r : Key(r) \notin ex)

MergeGithub ==
    /\ pc = "github"
    /\ LET github_rows == fetch_github_repo_stats(config.github, today, upstream.github)
       IN  /\ new_rows' = new_rows \o merge_rows(github_rows, existing)
           /\ fetched' = fetched \cup Range(github_rows)
           /\ failed' = failed \cup GithubFailures(config.github, upstream.github)
    /\ pc' = PhaseAfter("github")
    /\ idx' = 1
    /\ processed' = processed + 1
    /\ UNCHANGED <<config, upstream, today, csv, existing, csv0, lastRunDay, prevRunDay, call,
                   discord_log, writes>>

\* what the adapter yielded for a guild, before the merge
DiscordYield(result, day) ==
    IF result.tag # "ok" THEN {}
    ELSE Range(MemberRows(result, day, {})) \cup Range(MessageRows(result, {}))

\* the requests for a guild that failed: the guild request, or a request
\* of the message counts (the channel list, a page of messages)
DiscordFailures(guild_id, gw, result) ==
    IF ~upstream.discord.token THEN {}
    ELSE IF gw.guild_status # "ok" THEN {<<"discord", guild_id>>}
    ELSE IF result.messages_none
            \/ \E i \in DOMAIN result.requests : result.requests[i].status = "error"
    THEN {<<"discord_messages", guild_id>>}
    ELSE {}

\* the requests of one guild's fetch as the run's log keeps them
Logged(guild_id, requests) ==
    [i \in DOMAIN requests |->
        [guild |-> guild_id, kind |-> requests[i].kind, channel |-> requests[i].channel,
         after |-> requests[i].after, status |-> requests[i].status]]

\* lines 451-479: one iteration of the Discord loop
MergeDiscord ==
    /\ pc = "discord"
    /\ LET guild_id == config.discord[idx]
           gw == upstream.discord.guilds[guild_id]
           result == fetch_discord_stats(gw, upstream.discord.token, existing, today)
       IN  /\ new_rows' = new_rows \o merge_discord(result, today, existing)
           /\ fetched' = fetched \cup DiscordYield(result, today)
           /\ failed' = failed \cup DiscordFailures(guild_id, gw, result)
           /\ discord_log' = discord_log \o Logged(guild_id, result.requests)
    /\ Advance("discord", config.discord)
    /\ processed' = processed + 1
    /\ UNCHANGED <<config, upstream, today, csv, existing, csv0, lastRunDay, prevRunDay, call,
                   writes>>

\* (variant: append_rows is called whatever new_rows holds)
Persist_mut_always ==
    /\ pc = "persist"
    /\ csv' = append_rows(csv, new_rows)
    /\ pc' = "done"
    /\ prevRunDay' = lastRunDay
    /\ lastRunDay' = today
    /\ writes' = writes + 1
    /\ UNCHANGED <<config, upstream, today, idx, existing, new_rows, csv0, fetched, failed,
                   call, discord_log, processed>>

\* lines 481-487: append_rows(new_rows) when there is something to append
Persist ==
    /\ pc = "persist"
    /\ csv' = IF new_rows # <<>> THEN append_rows(csv, new_rows) ELSE csv
    /\ pc' = "done"
    /\ prevRunDay' = lastRunDay
    /\ lastRunDay' = today
    /\ writes' = IF new_rows # <<>> THEN writes + 1 ELSE writes
    /\ UNCHANGED <<config, upstream, today, idx, existing, new_rows, csv0, fetched, failed,
                   call, discord_log, processed>>

\* the calendar: a day passes between two runs
NextDay ==
    /\ Stopped
    /\ today < FirstDay + MaxDaysElapsed
    /\ today' = today + 1
    /\ pc' = "idle"
    /\ UNCHANGED <<config, upstream, csv, idx, existing, new_rows, csv0,
                   fetched, failed, lastRunDay, prevRunDay, call, discord_log, writes,
                   processed>>

\* the process is killed while main() is in one of its loops or about to
\* call append_rows: nothing of the run is kept, the file is not touched
Interrupt ==
    /\ pc \in {"pypi", "npm", "github", "discord", "persist"}
    /\ pc' = "killed"
    /\ UNCHANGED <<config, upstream, today, csv, idx, existing, new_rows, csv0,
                   fetched, failed, lastRunDay, prevRunDay, call, discord_log, writes,
                   processed>>

Next ==
    \/ StartRun
    \/ MergePypi
    \/ MergeNpm
    \/ MergeGithub
    \/ MergeDiscord
    \/ Persist
    \/ Interrupt
    \/ NextDay

Spec == Init /\ [][Next]_vars

(***************************************************************************)
(* The runs that find a damaged store: a row cut short, a file without the *)
(* header line, an empty file.                                             *)
(***************************************************************************)
ShortLine(d, p) == [kind |-> "row", nf |-> 2, date |-> d, package |-> p,
                    source |-> NoneStr, downloads |-> 0]

DamagedStores ==
    { [exists |-> TRUE, lines |-> << CSV_HEADERS, ShortLine(1, "acme") >>],
      [exists |-> TRUE,
       lines |-> << CSV_HEADERS, RowLine(Row(1, "acme", "pypi", 100)),
                    ShortLine(2, "acme") >>],
      [exists |-> TRUE,
       lines |-> << RowLine(Row(1, "acme", "pypi", 100)),
                    RowLine(Row(2, "acme", "pypi", 150)) >>],
      [exists |-> TRUE, lines |-> <<>>] }

InitDamaged ==
    /\ config \in Configs
    /\ upstream \in Upstreams(config)
    /\ today = FirstDay
    /\ csv \in DamagedStores \cup {NoStore}
    /\ pc = "idle"
    /\ idx = 1
    /\ existing = {}
    /\ new_rows = <<>>
    /\ csv0 = csv
    /\ fetched = {}
    /\ failed = {}
    /\ lastRunDay = 0
    /\ prevRunDay = 0
    /\ call = NoCall
    /\ discord_log = <<>>
    /\ writes = 0
    /\ processed = 0

SpecDamaged == InitDamaged /\ [][Next]_vars

(***************************************************************************)
(* A single call of fetch_repos_for_owner, for every combination of the    *)
(* three listing endpoints' answers.                                       *)
(***************************************************************************)
MaxFailPage == 2

ItemLists == { <<>>, <<RepoApp, RepoAlien>>, <<RepoApp, RepoLib, RepoZed>> }

Endpoints ==
    { Endpoint(items, 0, "404") : items \in ItemLists }
    \cup { Endpoint(items, fp, fk) :
             items \in ItemLists, fp \in 1 .. MaxFailPage, fk \in {"404", "500", "notlist"} }

Viewers == { NoToken, AsOcto, [token |-> TRUE, status |-> "error", login |-> "Octo"] }

InitOwner ==
    /\ call \in { [fn |-> "fetch_repos_for_owner", owner |-> o, viewer |-> v,
                    gh |-> GhWorld(v, u, g, s, RepoError), done |-> FALSE,
                    result |-> [tag |-> "", repos |-> <<>>, via |-> "", error |-> ""]] :
                     o \in Owners, v \in Viewers, u \in Endpoints, g \in Endpoints,
                     s \in Endpoints }
    /\ config = Cfg(<<>>, <<>>, NoGithub, <<>>)
    /\ upstream = [pypi |-> <<>>, npm |-> <<>>, github |-> DefaultGithub, discord |-> <<>>]
    /\ today = FirstDay
    /\ csv = NoStore
    /\ pc = "idle"
    /\ idx = 1
    /\ existing = {}
    /\ new_rows = <<>>
    /\ csv0 = NoStore
    /\ fetched = {}
    /\ failed = {}
    /\ lastRunDay = 0
    /\ prevRunDay = 0
    /\ discord_log = <<>>
    /\ writes = 0
    /\ processed = 0

CallFetchReposForOwner ==
    /\ call.fn = "fetch_repos_for_owner"
    /\ ~call.done
    /\ call' = [call EXCEPT
                  !.done = TRUE,
                  !.result = fetch_repos_for_owner(call.owner,
                                 fetch_github_user_login(call.viewer), call.gh)]
    /\ UNCHANGED <<config, upstream, today, csv, pc, idx, existing, new_rows,
                   csv0, fetched, failed, lastRunDay, prevRunDay, discord_log, writes,
                   processed>>

NextOwner == CallFetchReposForOwner

SpecOwner == InitOwner /\ [][NextOwner]_vars

(***************************************************************************)
(* The channel loop of fetch_discord_stats (lines 342-378) one request at  *)
(* a time, for every combination of two channels' histories, the order of  *)
(* a page and the set of missing days.  `call` holds the locals of the     *)
(* function: the index of the channel, the cursor, the counts.             *)
(***************************************************************************)
others == <<config, upstream, today, csv, pc, idx, existing, new_rows, csv0,
            fetched, failed, lastRunDay, prevRunDay, discord_log, writes, processed>>

TextAndAnnouncement == << Channel("c1", 0), Channel("c2", 5) >>

\* exactly one full page
OnePage == { MessageId(FirstDay - 2, 0, 1), MessageId(FirstDay - 1, 0, 1) }

Histories ==
    { History(msgs, 0, "403") : msgs \in {{}, SomeMessages, BusyMessages, OnePage} }
    \cup { History(BusyMessages, fp, fk) :
             fp \in 1 .. MaxFailPage, fk \in {"403", "error"} }

\* at most one of the two channels has a failing page
HistoriesOf(cs) ==
    { f \in [ChannelIds -> Histories] :
        /\ cs = TwoChannels => f["c2"] = History({}, 0, "403")
        /\ f["c1"].fail_page = 0 \/ f["c2"].fail_page = 0 }

BackfillWorlds ==
    UNION { { [channels |-> cs, history |-> h, order |-> o] :
                h \in HistoriesOf(cs), o \in {"asc", "desc"} } :
            cs \in {TwoChannels, TextAndAnnouncement} }

NoRequest == [channel |-> NoneStr, after |-> 0, page |-> 0, status |-> NoneStr,
              returned |-> 0]

InitBackfill ==
    /\ call \in { [fn |-> "fetch_discord_stats", gw |-> w, days_needed |-> dn,
                    start |-> snowflake_from_datetime(Min(dn)),
                    ch |-> 1, after |-> snowflake_from_datetime(Min(dn)), page |-> 1,
                    by_date |-> <<>>, last |-> NoRequest, ended |-> <<>>,
                    done |-> FALSE] :
                     w \in BackfillWorlds,
                     dn \in (SUBSET ((FirstDay - backfill_days) .. (FirstDay - 1))) \ {{}} }
    /\ config = Cfg(<<>>, <<>>, NoGithub, <<>>)
    /\ upstream = [pypi |-> <<>>, npm |-> <<>>, github |-> DefaultGithub, discord |-> <<>>]
    /\ today = FirstDay
    /\ csv = NoStore
    /\ pc = "idle"
    /\ idx = 1
    /\ existing = {}
    /\ new_rows = <<>>
    /\ csv0 = NoStore
    /\ fetched = {}
    /\ failed = {}
    /\ lastRunDay = 0
    /\ prevRunDay = 0
    /\ discord_log = <<>>
    /\ writes = 0
    /\ processed = 0

InChannels == call.fn = "fetch_discord_stats" /\ ~call.done /\ call.ch <= Len(call.gw.channels)

\* lines 343-344: a channel that is neither text nor announcement is passed
SkipChannel ==
    /\ InChannels
    /\ call.gw.channels[call.ch].type \notin text_channel_types
    /\ call' = [call EXCEPT !.ch = @ + 1]
    /\ UNCHANGED others

\* the channel loop goes to the next channel: the cursor starts again
LeaveChannel(c, req, by_date, how) ==
    [c EXCEPT !.ch = @ + 1, !.after = c.start, !.page = 1, !.by_date = by_date,
              !.last = req,
              !.ended = Append(@, [channel |-> c.gw.channels[c.ch].id, how |-> how])]

\* (variant: a 403 ends the channel loop)
On403_mut_abort(c, req) ==
    [c EXCEPT !.ch = Len(c.gw.channels) + 1, !.last = req,
              !.ended = Append(@, [channel |-> c.gw.channels[c.ch].id, how |-> "403"])]

\* lines 355-356: if resp.status_code == 403: break
On403(c, req) == LeaveChannel(c, req, c.by_date, "403")

\* lines 349-369: one request of the while loop and what follows from it
PageStep ==
    /\ InChannels
    /\ call.gw.channels[call.ch].type \in text_channel_types
    /\ LET ch_id == call.gw.channels[call.ch].id
           resp == MessagesAnswer(call.gw.history[ch_id], call.gw.order, call.after,
                                  call.page)
           req == [channel |-> ch_id, after |-> call.after, page |-> call.page,
                   status |-> resp.status, returned |-> Len(resp.msgs)]
           counted == Bucket(resp.msgs, call.days_needed, call.by_date)
       IN  call' = IF resp.status = "403"
                   THEN On403(call, req)
                   ELSE IF resp.status # "ok"
                   THEN LeaveChannel(call, req, call.by_date, "error")
                   ELSE IF resp.msgs = <<>>
                   THEN LeaveChannel(call, req, call.by_date, "empty")
                   ELSE IF Len(resp.msgs) < page_limit
                   THEN LeaveChannel(call, req, counted, "short")
                   ELSE [call EXCEPT !.after = NextCursor(resp.msgs, call.after),
                                     !.page = @ + 1, !.by_date = counted, !.last = req]
    /\ UNCHANGED others

\* lines 373-378: the zero fill and the return
ReturnCounts ==
    /\ call.fn = "fetch_discord_stats"
    /\ ~call.done
    /\ call.ch > Len(call.gw.channels)
    /\ call' = [call EXCEPT !.by_date = ZeroFill(@, call.days_needed), !.done = TRUE]
    /\ UNCHANGED others

NextBackfill ==
    \/ SkipChannel
    \/ PageStep
    \/ ReturnCounts

\* the loop is straight-line code: a request that can be sent is sent
SpecBackfill == InitBackfill /\ [][NextBackfill]_vars /\ WF_vars(NextBackfill)

\* the loop taken one request at a time computes what ChannelsLoop computes
BackfillAgrees ==
    (call.fn = "fetch_discord_stats" /\ call.done) =>
        call.by_date
            = ZeroFill(ChannelsLoop(call.gw.channels, call.gw, call.start, call.days_needed,
                                    [by_date |-> <<>>, requests |-> <<>>]).by_date,
                       call.days_needed)

(***************************************************************************)
(* fetch_github_paginated (lines 134-153) one request at a time, over      *)
(* listings of 0 to 2 * per_page + 1 items.                                *)
(***************************************************************************)
Listing(n) == [i \in 1 .. n |-> Repo("octo/app", "octo", i)]

ListingEndpoints ==
    { Endpoint(Listing(n), 0, "404") : n \in 0 .. (2 * per_page + 1) }
    \cup { Endpoint(Listing(n), fp, fk) :
             n \in 0 .. (2 * per_page + 1), fp \in 1 .. (MaxFailPage + 1),
             fk \in {"404", "500", "notlist"} }

InitPaginated ==
    /\ call \in { [fn |-> "fetch_github_paginated", ep |-> e, page |-> 1,
                    all_items |-> <<>>, requested |-> <<>>, done |-> FALSE,
                    tag |-> ""] : e \in ListingEndpoints }
    /\ config = Cfg(<<>>, <<>>, NoGithub, <<>>)
    /\ upstream = [pypi |-> <<>>, npm |-> <<>>, github |-> DefaultGithub, discord |-> <<>>]
    /\ today = FirstDay
    /\ csv = NoStore
    /\ pc = "idle"
    /\ idx = 1
    /\ existing = {}
    /\ new_rows = <<>>
    /\ csv0 = NoStore
    /\ fetched = {}
    /\ failed = {}
    /\ lastRunDay = 0
    /\ prevRunDay = 0
    /\ discord_log = <<>>
    /\ writes = 0
    /\ processed = 0

\* lines 138-152: one iteration of the while loop
RequestPage ==
    /\ call.fn = "fetch_github_paginated"
    /\ ~call.done
    /\ LET failing == call.ep.fail_page = call.page
           batch == PageOf(call.ep.items, call.page)
           sent == [call EXCEPT !.requested = Append(@, call.page)]
       IN  call' = IF failing /\ call.ep.fail_kind = "404"
                   THEN [sent EXCEPT !.done = TRUE, !.tag = "none", !.all_items = <<>>]
                   ELSE IF failing /\ call.ep.fail_kind = "500"
                   THEN [sent EXCEPT !.done = TRUE, !.tag = "raise", !.all_items = <<>>]
                   ELSE IF failing /\ call.ep.fail_kind = "notlist"
                   THEN [sent EXCEPT !.done = TRUE, !.tag = "ok"]
                   ELSE IF LastPage(batch)
                   THEN [sent EXCEPT !.done = TRUE, !.tag = "ok",
                                     !.all_items = @ \o batch]
                   ELSE [sent EXCEPT !.page = @ + 1, !.all_items = @ \o batch]
    /\ UNCHANGED others

NextPaginated == RequestPage

SpecPaginated == InitPaginated /\ [][NextPaginated]_vars /\ WF_vars(NextPaginated)

\* the loop taken one request at a time computes what PaginatedLoop computes
PaginatedAgrees ==
    (call.fn = "fetch_github_paginated" /\ call.done) =>
        fetch_github_paginated(call.ep)
            = [tag |-> call.tag, items |-> call.all_items, pages |-> Len(call.requested)]

(***************************************************************************)
(* snowflake_from_datetime and date_from_snowflake (lines 271-284) called  *)
(* on two days and on an identifier `offset` above the first day's.        *)
(***************************************************************************)
MaxDay == 4

\* the identifiers from one local midnight up to the next
IdsPerDay == MsPerDay * Pow2(SnowflakeShift)

InitTranslator ==
    /\ call \in { [fn |-> "translator", d1 |-> a, d2 |-> b, offset |-> k,
                    s1 |-> 0, s2 |-> 0, back |-> 0, step |-> 0] :
                     a \in 1 .. MaxDay, b \in 1 .. MaxDay, k \in 0 .. (IdsPerDay - 1) }
    /\ config = Cfg(<<>>, <<>>, NoGithub, <<>>)
    /\ upstream = [pypi |-> <<>>, npm |-> <<>>, github |-> DefaultGithub, discord |-> <<>>]
    /\ today = FirstDay
    /\ csv = NoStore
    /\ pc = "idle"
    /\ idx = 1
    /\ existing = {}
    /\ new_rows = <<>>
    /\ csv0 = NoStore
    /\ fetched = {}
    /\ failed = {}
    /\ lastRunDay = 0
    /\ prevRunDay = 0
    /\ discord_log = <<>>
    /\ writes = 0
    /\ processed = 0

CallSnowflakeFromDatetime ==
    /\ call.fn = "translator"
    /\ call.step = 0
    /\ call' = [call EXCEPT !.s1 = snowflake_from_datetime(call.d1),
                            !.s2 = snowflake_from_datetime(call.d2),
                            !.step = 1]
    /\ UNCHANGED others

CallDateFromSnowflake ==
    /\ call.fn = "translator"
    /\ call.step = 1
    /\ call' = [call EXCEPT !.back = date_from_snowflake(call.s1 + call.offset),
                            !.step = 2]
    /\ UNCHANGED others

NextTranslator ==
    \/ CallSnowflakeFromDatetime
    \/ CallDateFromSnowflake

SpecTranslator == InitTranslator /\ [][NextTranslator]_vars

(***************************************************************************)
(* A single call of fetch_github_repo_stats (lines 197-257), for           *)
(* configurations naming two owners and explicit repositories and for the  *)
(* listings the two owners may have.                                       *)
(***************************************************************************)
TwoOwners == {"octo", "hub"}

GithubConfigs ==
    { NoGithub,
      GhCfg("dict", <<"octo", "hub">>, <<>>, <<>>),
      GhCfg("dict", <<"octo">>, <<"octo/app">>, <<>>),
      GhCfg("dict", <<"octo", "hub">>, <<"octo/app", "octo/lib">>, <<>>),
      GhCfg("dict", <<>>, <<"octo/app", "octo/app">>, <<>>),
      GhCfg("list", <<>>, <<>>, <<"octo", "octo/app">>) }

OrgListings ==
    { NotFound,
      Endpoint(<<RepoApp>>, 0, "404"),
      Endpoint(<<RepoApp, RepoLib, RepoZed>>, 0, "404"),
      Endpoint(<<RepoApp, RepoLib, RepoZed>>, 2, "500") }

TwoOwnerWorlds ==
    { [viewer |-> v, user_repos |-> u, orgs |-> o,
       users |-> [x \in TwoOwners |-> NotFound],
       repos |-> [n \in RepoNames |-> r]] :
        v \in {NoToken, AsOcto},
        u \in {NotFound, Endpoint(<<RepoApp, RepoAlien>>, 0, "404")},
        o \in [TwoOwners -> OrgListings],
        r \in {RepoOk, RepoError} }

InitGithub ==
    /\ call \in { [fn |-> "fetch_github_repo_stats", g |-> g, gh |-> w, done |-> FALSE,
                    rows |-> <<>>] : g \in GithubConfigs, w \in TwoOwnerWorlds }
    /\ config = Cfg(<<>>, <<>>, NoGithub, <<>>)
    /\ upstream = [pypi |-> <<>>, npm |-> <<>>, github |-> DefaultGithub, discord |-> <<>>]
    /\ today \in FirstDay .. (FirstDay + MaxDaysElapsed)
    /\ csv = NoStore
    /\ pc = "idle"
    /\ idx = 1
    /\ existing = {}
    /\ new_rows = <<>>
    /\ csv0 = NoStore
    /\ fetched = {}
    /\ failed = {}
    /\ lastRunDay = 0
    /\ prevRunDay = 0
    /\ discord_log = <<>>
    /\ writes = 0
    /\ processed = 0

CallFetchGithubRepoStats ==
    /\ call.fn = "fetch_github_repo_stats"
    /\ ~call.done
    /\ call' = [call EXCEPT !.done = TRUE,
                            !.rows = fetch_github_repo_stats(call.g, today, call.gh)]
    /\ UNCHANGED others

NextGithub == CallFetchGithubRepoStats

SpecGithub == InitGithub /\ [][NextGithub]_vars

(***************************************************************************)
(* Properties of the ingestion run.                                        *)
(***************************************************************************)
\* the (date, entity, source) triples of the rows of a store
StoreKeys(f) == {<<l.date, l.package, l.source>> : l \in Range(DataLines(f))}

\* the rows the current/last run added to the store
Appended == SubSeq(DataLines(csv), Len(DataLines(csv0)) + 1, Len(DataLines(csv)))

AppendedOf(pkg, src) == SelectSeq(Appended, LAMBDA l : l.package = pkg /\ l.source = src)

\* C1: no two rows of the persisted dataset share the same
\* (date, entity, source) triple, after any sequence of runs.
C1_UniqueKeys ==
    \A i, j \in DOMAIN DataLines(csv) :
        i # j => Key(DataLines(csv)[i]) # Key(DataLines(csv)[j])

\* C2: a run that follows a completed run of the same day, with the same
\* configuration and the same upstream answers, appends nothing and leaves
\* the store as the first run left it.
C2_Idempotent ==
    (pc = "done" /\ prevRunDay = lastRunDay) => (csv = csv0 /\ new_rows = <<>>)

C2_Witness ==
    /\ pc = "done"
    /\ prevRunDay = lastRunDay
    /\ \E r \in fetched : r.source = "pypi"
    /\ \E r \in fetched : r.source = "discord_members"
    /\ csv = csv0
    /\ Len(DataLines(csv)) >= 2

\* C3: during merging every accepted record is in the pending batch and its
\* key is in the in-memory key set, so no key is accepted twice in a run.
C3_KeySetTracksAccepted ==
    /\ \A i \in DOMAIN new_rows : Key(new_rows[i]) \in existing
    /\ \A i, j \in DOMAIN new_rows : i # j => Key(new_rows[i]) # Key(new_rows[j])

\* C4: the data rows of the store before a run are a prefix of the data
\* rows after it: no row is deleted, reordered or given another value.
C4_PrefixKept == IsPrefix(DataLines(csv0), DataLines(csv))

C4_Witness ==
    /\ pc = "done"
    /\ Len(DataLines(csv)) > Len(DataLines(csv0))
    /\ \E r \in fetched : \E l \in Range(DataLines(csv0)) :
          Key(r) = Key(l) /\ r.downloads # l.downloads

\* C5: when the fetch of a target fails the run does not abort, and every
\* record fetched for the other targets whose key is not in the store is
\* in the store when the run ends.
C5_FailureIsolated ==
    failed # {} =>
        /\ pc # "aborted"
        /\ pc = "done" =>
              \A r \in fetched :
                  Key(r) \notin StoreKeys(csv0) => RowLine(r) \in Range(Appended)

C5_Witness ==
    /\ pc = "done"
    /\ \E f \in failed : f[1] \in {"pypi", "npm", "github_owner", "github_repo", "discord"}
    /\ \E r \in fetched : Key(r) \notin StoreKeys(csv0) /\ RowLine(r) \in Range(Appended)

\* C6: a target whose fetch hit an adapter-level error gets no new record
\* for the failed metric; in particular no daily message record is appended
\* for a guild one of whose message requests failed.
NameOf(guild_id) == upstream.discord.guilds[guild_id].name

C6_NoRecordForFailedMetric ==
    pc = "done" =>
        \A f \in failed :
            /\ f[1] = "pypi" => AppendedOf(f[2], "pypi") = <<>>
            /\ f[1] = "npm" => AppendedOf(f[2], "npm") = <<>>
            /\ (f[1] = "discord_messages"
                /\ \A g \in Range(config.discord) : g # f[2] => NameOf(g) # NameOf(f[2]))
               => AppendedOf(NameOf(f[2]), "discord_messages") = <<>>

\* C7: after a run in which the guild, channel-list and message requests of
\* a guild all succeed, each of the backfill_days days before today has a
\* daily message record of that guild in the store, and a day that was
\* missing and has no upstream message is recorded with the value 0.
TextChannels(gw) ==
    {gw.channels[i].id : i \in {k \in DOMAIN gw.channels : gw.channels[k].type \in {0, 5}}}

AllSucceeded(g) ==
    LET gw == upstream.discord.guilds[g]
    IN  /\ upstream.discord.token
        /\ gw.guild_status = "ok"
        /\ gw.channels_status = "ok"
        /\ \A c \in TextChannels(gw) : gw.history[c].fail_page = 0

Horizon == (today - backfill_days) .. (today - 1)

MessageDays(gw) ==
    {date_from_snowflake(m) : m \in UNION {gw.history[c].msgs : c \in TextChannels(gw)}}

C7_BackfillComplete ==
    pc = "done" =>
        \A g \in Range(config.discord) :
            AllSucceeded(g) =>
                \A d \in Horizon :
                    /\ <<d, NameOf(g), "discord_messages">> \in StoreKeys(csv)
                    /\ (<<d, NameOf(g), "discord_messages">> \notin StoreKeys(csv0)
                        /\ d \notin MessageDays(upstream.discord.guilds[g]))
                       => \E l \in Range(Appended) :
                             /\ Key(l) = <<d, NameOf(g), "discord_messages">>
                             /\ l.downloads = 0

C7_Witness ==
    /\ pc = "done"
    /\ \E g \in Range(config.discord) :
          /\ AllSucceeded(g)
          /\ \E l \in Range(AppendedOf(NameOf(g), "discord_messages")) : l.downloads = 0
          /\ \E l \in Range(AppendedOf(NameOf(g), "discord_messages")) : l.downloads > 0

\* C8: for a package fetched once in a run, with distinct dates upstream,
\* the rows appended for it are exactly the fetched data points whose key
\* is not in the store, one row each.
PypiPoints(pkg) ==
    {<<e.date, e.downloads>> :
        e \in {x \in Range(upstream.pypi[pkg].data) : x.category = "with_mirrors"}}

DistinctDates(pkg) ==
    LET data == SelectSeq(upstream.pypi[pkg].data, LAMBDA e : e.category = "with_mirrors")
    IN  \A i, j \in DOMAIN data : i # j => data[i].date # data[j].date

C8_MergeExact ==
    \A pkg \in Packages :
        (pc = "done" /\ config.pypi = <<pkg>> /\ upstream.pypi[pkg].status = "ok"
         /\ DistinctDates(pkg))
        => LET new == {p \in PypiPoints(pkg) : <<p[1], pkg, "pypi">> \notin StoreKeys(csv0)}
               rows == AppendedOf(pkg, "pypi")
           IN  /\ {<<l.date, l.downloads>> : l \in Range(rows)} = new
               /\ Len(rows) = Cardinality(new)

C8_Witness ==
    /\ pc = "done"
    /\ config.pypi = <<"acme">>
    /\ <<1, "acme", "pypi">> \in StoreKeys(csv0)
    /\ PypiPoints("acme") = {<<1, 100>>, <<2, 150>>}
    /\ Len(DataLines(csv)) = Len(DataLines(csv0)) + 1
    /\ AppendedOf("acme", "pypi") = << RowLine(Row(2, "acme", "pypi", 150)) >>

\* C9: a not-found answer of a listing, at any page, makes the adapter try the
\* next strategy (authenticated user, organisation, user); the call succeeds
\* with the first strategy that does not answer not-found, and it fails only
\* if every strategy answers not-found.
\* The page a listing fails at is requested iff every page before it is full.
Reached(ep) == ep.fail_page >= 1 /\ Len(ep.items) >= (ep.fail_page - 1) * per_page

AnswersNotFound(ep) == Reached(ep) /\ ep.fail_kind = "404"

AnswersError(ep) == Reached(ep) /\ ep.fail_kind = "500"

Strategies ==
    (IF call.viewer.token /\ call.viewer.status = "ok"
        /\ Lower(call.viewer.login) = Lower(call.owner)
     THEN <<"user">> ELSE <<>>) \o <<"orgs", "users">>

EndpointOf(strategy) ==
    IF strategy = "user" THEN call.gh.user_repos
    ELSE IF strategy = "orgs" THEN call.gh.orgs[call.owner]
    ELSE call.gh.users[call.owner]

AllNotFound == \A i \in DOMAIN Strategies : AnswersNotFound(EndpointOf(Strategies[i]))

\* the first strategy that does not answer not-found
FirstFound ==
    Strategies[Min({i \in DOMAIN Strategies : ~AnswersNotFound(EndpointOf(Strategies[i]))})]

C9_Original ==
    (call.fn = "fetch_repos_for_owner" /\ call.done) =>
        /\ ~AllNotFound => (call.result.tag = "ok" /\ call.result.via = FirstFound)
        /\ call.result.tag = "raise" => AllNotFound

\* C9 (amended): the call succeeds with the first strategy that does not answer
\* not-found when none of that strategy's requests fails otherwise; it fails
\* if every strategy answers not-found, or if that first strategy answers
\* another error (no later strategy is then tried).
C9_Fallback ==
    (call.fn = "fetch_repos_for_owner" /\ call.done) =>
        IF AllNotFound
        THEN call.result.tag = "raise" /\ call.result.error = "RuntimeError"
        ELSE /\ call.result.via = FirstFound
             /\ IF AnswersError(EndpointOf(FirstFound))
                THEN call.result.tag = "raise" /\ call.result.error = "HTTPError"
                ELSE call.result.tag = "ok"

C9_Witness ==
    /\ call.fn = "fetch_repos_for_owner"
    /\ call.done
    /\ Len(Strategies) = 3
    /\ AnswersNotFound(call.gh.user_repos)
    /\ AnswersNotFound(call.gh.orgs[call.owner])
    /\ call.gh.orgs[call.owner].fail_page = 2
    /\ call.result.tag = "ok"
    /\ call.result.via = "users"
    /\ call.result.repos # <<>>

\* C10: a run that finds a malformed row in the store aborts at the load,
\* before any target is fetched or merged, and leaves the store unchanged;
\* a missing store loads as the empty key set.
HasMalformedRow(f) == \E i \in DOMAIN f.lines : f.lines[i].kind = "row" /\ f.lines[i].nf < 4

C10_StoreUnreadableFatal ==
    pc # "idle" =>
        /\ HasMalformedRow(csv0) => (pc = "aborted" /\ csv = csv0 /\ fetched = {})
        /\ ~csv0.exists => (pc # "aborted" /\ existing = {})

\* the rows a run appended for the Discord sources
DiscordSources == {"discord_members", "discord_messages"}

\* C11: when the bot token is missing, a run with Discord targets sends no
\* request to Discord, is not aborted, appends no Discord record, and appends
\* every record fetched for the other sources whose key is not in the store.
C11_NoTokenSkipsDiscord ==
    (~upstream.discord.token /\ config.discord # <<>>) =>
        /\ discord_log = <<>>
        /\ pc # "aborted"
        /\ pc = "done" =>
              /\ \A l \in Range(Appended) : l.source \notin DiscordSources
              /\ \A r \in fetched :
                    Key(r) \notin StoreKeys(csv0) => RowLine(r) \in Range(Appended)

C11_Witness ==
    /\ pc = "done"
    /\ ~upstream.discord.token
    /\ config.discord # <<>>
    /\ \E l \in Range(Appended) : l.source = "pypi"

\* the entries the npm registry holds for a package, when it answers
NpmHeld(pkg) ==
    IF upstream.npm[pkg].status = "ok" THEN upstream.npm[pkg].downloads ELSE <<>>

\* the entries of the registry a run should record under the reading
\* "yesterday's entry, else the most recent earlier one"
LatestUpTo(entries, day) ==
    SelectSeq(entries, LAMBDA e :
        /\ e.day <= day
        /\ \A f \in Range(entries) : f.day <= day => f.day <= e.day)

\* C12 as stated: a run over an empty store records for an npm package only
\* the registry's entry of yesterday or, when there is none, its most recent
\* earlier entry.
C12_Original ==
    (pc = "done" /\ ~csv0.exists) =>
        \A i \in DOMAIN config.npm :
            AppendedOf(config.npm[i], "npm")
                = MapSeq(LatestUpTo(NpmHeld(config.npm[i]), today - 1),
                         LAMBDA e : RowLine(Row(e.day, config.npm[i], "npm", e.downloads)))

\* C12 amended: a run records for an npm package every entry the registry
\* holds for the 365 days ending yesterday whose key is not in the store, in
\* the registry's order; so an entry of an earlier day is recorded when
\* yesterday's is absent.
C12_RangeRecorded ==
    pc = "done" =>
        \A i \in DOMAIN config.npm :
            AppendedOf(config.npm[i], "npm")
                = MapSeq(SelectSeq(NpmHeld(config.npm[i]), LAMBDA e :
                            /\ today - 1 - NpmRangeDays <= e.day
                            /\ e.day <= today - 1
                            /\ <<e.day, config.npm[i], "npm">> \notin StoreKeys(csv0)),
                         LAMBDA e : RowLine(Row(e.day, config.npm[i], "npm", e.downloads)))

\* the scenario: no store, the registry holds a single entry, of a day
\* before yesterday, and the run appends exactly that record
C12_Witness ==
    /\ pc = "done"
    /\ ~csv0.exists
    /\ \E i \in DOMAIN config.npm :
          /\ Len(NpmHeld(config.npm[i])) = 1
          /\ NpmHeld(config.npm[i])[1].day < today - 1
          /\ Len(Appended) = 1
          /\ Appended[1] = RowLine(Row(NpmHeld(config.npm[i])[1].day, config.npm[i],
                                       "npm", NpmHeld(config.npm[i])[1].downloads))

\* the messages of a guild's text and announcement channels sent on day d
MessagesOn(gw, d) ==
    {<<c, m>> \in TextChannels(gw) \X UNION {gw.history[c].msgs : c \in TextChannels(gw)} :
        m \in gw.history[c].msgs /\ date_from_snowflake(m) = d}

\* C13: after a run in which every request of a guild succeeded, the daily
\* message record appended for a day that was missing holds the number of
\* messages of the guild's text and announcement channels sent on that day,
\* whatever the number of pages and the order within a page.
C13_EachMessageOnce ==
    pc = "done" =>
        \A g \in Range(config.discord) :
            (/\ AllSucceeded(g)
             /\ \A h \in Range(config.discord) : h # g => NameOf(h) # NameOf(g)) =>
                \A l \in Range(AppendedOf(NameOf(g), "discord_messages")) :
                    l.downloads = Cardinality(MessagesOn(upstream.discord.guilds[g], l.date))

\* the channel the loop is in
CurrentChannel == call.gw.channels[call.ch]

\* a step that stays in a channel follows a full page and moves the cursor
\* up; a step that leaves a text channel follows a 403, an error, an empty
\* page or a short page
CursorAdvances ==
    /\ (call'.ch = call.ch /\ call' # call /\ ~call'.done) =>
            /\ call'.after > call.after
            /\ call'.last.status = "ok"
            /\ call'.last.returned = page_limit
    /\ (call'.ch # call.ch /\ CurrentChannel.type \in text_channel_types) =>
            \/ call'.last.status \in {"403", "error"}
            \/ call'.last.status = "ok" /\ call'.last.returned < page_limit

\* the requests sent to a channel are at most its messages plus one
PageBound ==
    InChannels =>
        call.page <= Cardinality(call.gw.history[CurrentChannel.id].msgs) + 1

\* C14: the paging of every channel ends and the function returns; a
\* channel with n messages gets at most n + 1 requests; paging goes on only
\* after a full page and ends on an empty page, a short page, a 403 or an
\* error; each request of a channel has a cursor strictly greater than the
\* one before, so no page is requested twice.
C14_PagingTerminates ==
    /\ [][CursorAdvances]_vars
    /\ [](PageBound)
    /\ <>(call.done)

\* the third request of a channel is about to be sent, after two full pages
C14_Witness ==
    /\ InChannels
    /\ call.page = 3
    /\ call.last.page = 2
    /\ call.after > call.last.after
    /\ call.last.after > call.start

\* the listing answers every page the loop can ask for
NeverFails(ep) == ep.fail_page = 0 \/ ep.fail_page > Len(ep.items) \div per_page + 1

\* C15: fetch_github_paginated asks for the pages 1, 2, ... in order; on a
\* listing of n items that answers every page it stops after the first page
\* shorter than the page size, having asked for n \div per_page + 1 pages,
\* and returns the n items once each in the listing's order; it always
\* returns.
C15_PagesInOrder ==
    /\ [](\A i \in DOMAIN call.requested : call.requested[i] = i)
    /\ []((call.done /\ NeverFails(call.ep)) =>
            /\ call.tag = "ok"
            /\ call.all_items = call.ep.items
            /\ Len(call.requested) = Len(call.ep.items) \div per_page + 1
            /\ Len(PageOf(call.ep.items, Len(call.requested))) < per_page
            /\ \A q \in 1 .. (Len(call.requested) - 1) :
                  Len(PageOf(call.ep.items, q)) = per_page)
    /\ <>(call.done)

\* a listing of two full pages and one item more, returned whole
C15_Witness ==
    /\ call.fn = "fetch_github_paginated"
    /\ call.done
    /\ NeverFails(call.ep)
    /\ Len(call.ep.items) = 2 * per_page + 1
    /\ call.requested = <<1, 2, 3>>
    /\ call.all_items = call.ep.items

\* the text and announcement channels of the call, in the order of the list
TextChannelSeq ==
    LET text == SelectSeq(call.gw.channels, LAMBDA c : c.type \in text_channel_types)
    IN  [i \in DOMAIN text |-> text[i].id]

\* a request answered 403 ends the paging of its channel and nothing else:
\* the counts are what they were, the loop is at the next channel
Step403 ==
    (call' # call /\ ~call.done /\ call'.last.status = "403"
        /\ call'.last # call.last) =>
        /\ call'.by_date = call.by_date
        /\ call'.ch = call.ch + 1
        /\ call'.after = call.start
        /\ call'.page = 1
        /\ ~call'.done

\* no step takes a count away
CountsKept ==
    \A d \in DOMAIN call.by_date :
        d \in DOMAIN call'.by_date /\ call'.by_date[d] >= call.by_date[d]

\* C16: a 403 on a page of a channel ends the paging of that channel only:
\* the counts made so far are kept, every text or announcement channel of
\* the list is paged, in order, whatever the channels before it answered,
\* and the function returns counts for every day needed.
C16_ForbiddenEndsChannelOnly ==
    /\ [][Step403 /\ CountsKept]_vars
    /\ [](call.done =>
            /\ [i \in DOMAIN call.ended |-> call.ended[i].channel] = TextChannelSeq
            /\ call.days_needed \subseteq DOMAIN call.by_date)
    /\ <>(call.done)

\* the first channel answered 403 on its second page; the counts of its
\* first page are in the result and the second channel was paged to its end
C16_Witness ==
    /\ call.fn = "fetch_discord_stats"
    /\ call.done
    /\ Len(call.ended) = 2
    /\ call.ended[1] = [channel |-> "c1", how |-> "403"]
    /\ call.gw.history["c1"].fail_page = 2
    /\ call.ended[2] = [channel |-> "c2", how |-> "short"]
    /\ \E d \in DOMAIN call.by_date :
          call.by_date[d] > Cardinality({m \in call.gw.history["c2"].msgs :
                                          date_from_snowflake(m) = d})

\* the messages of a guild that fall on a day outside the missing set of
\* the run: today or later, before the horizon, or a day the store had
OutsideMessages(g) ==
    LET gw == upstream.discord.guilds[g]
    IN  {m \in UNION {gw.history[c].msgs : c \in TextChannels(gw)} :
            \/ date_from_snowflake(m) \notin Horizon
            \/ <<date_from_snowflake(m), gw.name, "discord_messages">> \in StoreKeys(csv0)}

\* C17: every daily message record a run appends is dated one of the
\* backfill_days days before today and its key was not in the store the run
\* loaded; the rows the store had are kept as they were; a day none of whose
\* messages exist upstream is recorded as 0 whatever messages of other days
\* upstream returns.
C17_WindowBound ==
    pc = "done" =>
        /\ \A l \in Range(Appended) :
              l.source = "discord_messages" =>
                  /\ l.date \in Horizon
                  /\ l.date < today
                  /\ Key(l) \notin StoreKeys(csv0)
        /\ IsPrefix(csv0.lines, csv.lines)
        /\ \A g \in Range(config.discord) :
              (\A h \in Range(config.discord) : h # g => NameOf(h) # NameOf(g)) =>
                  \A l \in Range(AppendedOf(NameOf(g), "discord_messages")) :
                      MessagesOn(upstream.discord.guilds[g], l.date) = {}
                          => l.downloads = 0

\* a run appended daily message records while upstream also returned
\* messages of days outside the missing set
C17_Witness ==
    /\ pc = "done"
    /\ \E g \in Range(config.discord) :
          /\ AllSucceeded(g)
          /\ OutsideMessages(g) # {}
          /\ csv0.exists
          /\ \E d \in Horizon : <<d, NameOf(g), "discord_messages">> \in StoreKeys(csv0)
          /\ AppendedOf(NameOf(g), "discord_messages") # <<>>

\* the store the run loaded has a daily message record of the guild for
\* every day of the horizon
HorizonRecorded(g) ==
    /\ upstream.discord.token
    /\ upstream.discord.guilds[g].guild_status = "ok"
    /\ \A d \in Horizon : <<d, NameOf(g), "discord_messages">> \in StoreKeys(csv0)

\* C18: in a run that found a daily message record of a guild for every day
\* of the horizon, the fetch of that guild sends no channel-list request and
\* no message request and returns an empty dict of daily counts, and the run
\* appends no daily message record of that guild.
C18_NothingMissingNothingFetched ==
    pc \notin {"idle", "aborted"} =>
        \A g \in Range(config.discord) :
            HorizonRecorded(g) =>
                /\ \A i \in DOMAIN discord_log :
                      discord_log[i].guild = g => discord_log[i].kind = "guild"
                /\ LET result == fetch_discord_stats(upstream.discord.guilds[g], TRUE,
                                                     StoreKeys(csv0), today)
                   IN  result.tag = "ok" /\ ~result.messages_none
                       /\ result.messages_by_date = <<>>
                /\ pc = "done" => AppendedOf(NameOf(g), "discord_messages") = <<>>

\* a completed run that asked for such a guild, over a store holding
\* messages records of it, and appended its member count only
C18_Witness ==
    /\ pc = "done"
    /\ \E g \in Range(config.discord) :
          /\ HorizonRecorded(g)
          /\ \E i \in DOMAIN discord_log :
                discord_log[i].guild = g /\ discord_log[i].kind = "guild"
          /\ upstream.discord.guilds[g].channels_status = "ok"
          /\ upstream.discord.guilds[g].history["c1"].msgs # {}

\* the iterations of the target loops of a run: one for each PyPI package,
\* npm package and Discord guild of the configuration, one for the GitHub
\* block
AllTargets == Len(config.pypi) + Len(config.npm) + 1 + Len(config.discord)

\* the file changes only in the step that ends the run, taken after the
\* last target loop, and only with rows to append
WrittenAtTheEnd ==
    csv' # csv =>
        /\ pc = "persist" /\ pc' = "done"
        /\ processed = AllTargets
        /\ new_rows # <<>>
        /\ writes = 0 /\ writes' = 1

\* C19: a run opens the store for writing at most once, in its last step,
\* after every target of every source was fetched and merged; a run that
\* was killed before that step, and a run that accepted no row, leave the
\* file as the run found it (a file that did not exist still does not).
C19_SinglePersist ==
    /\ [][WrittenAtTheEnd]_vars
    /\ [](/\ writes <= 1
          /\ pc \in {"pypi", "npm", "github", "discord", "persist", "killed", "aborted"}
                => csv = csv0
          /\ (pc = "done" /\ new_rows = <<>>) => (csv = csv0 /\ writes = 0)
          /\ (pc = "done" /\ new_rows # <<>>) => writes = 1)

\* a run over two targets wrote once, at its end
C19_Witness ==
    /\ pc = "done"
    /\ writes = 1
    /\ processed = AllTargets
    /\ AllTargets >= 3
    /\ csv # csv0

\* a run was killed holding rows to append, and there is still no file
C19_KilledLeavesNoFile ==
    pc = "killed" /\ new_rows # <<>> /\ ~csv.exists

\* a run that accepted no row ended, and there is still no file
C19_NothingNewLeavesNoFile ==
    pc = "done" /\ new_rows = <<>> /\ ~csv.exists

\* the positions of the header line in a file
HeaderPositions(f) == {i \in DOMAIN f.lines : f.lines[i] = CSV_HEADERS}

\* what a step that changes the file writes: the header and the rows when
\* there was no file, the rows alone after the lines the file had
AppendWritesHeaderIffNew ==
    csv' # csv =>
        /\ csv'.exists
        /\ csv'.lines = csv.lines \o (IF csv.exists THEN <<>> ELSE <<CSV_HEADERS>>)
                                  \o MapSeq(new_rows, RowLine)
        /\ HeaderPositions(csv') = HeaderPositions(csv) \cup (IF csv.exists THEN {} ELSE {1})

\* C20: whatever runs took place, a store that has lines starts with the
\* header line and has it once; an append writes the header exactly when
\* the file did not exist when the append started.
C20_HeaderOnce ==
    /\ [](csv.lines # <<>> => HeaderPositions(csv) = {1})
    /\ [](csv.exists => csv.lines # <<>>)
    /\ [][AppendWritesHeaderIffNew]_vars

\* a run has appended rows to a file that existed
C20_Witness ==
    /\ pc = "done"
    /\ csv0.exists
    /\ Len(csv.lines) > Len(csv0.lines)
    /\ HeaderPositions(csv) = {1}
    /\ prevRunDay # 0

\* C21: for two days d1 <= d2 the identifier of d1 is not above that of
\* d2; the same day gives the same identifier, the value the function has
\* for that day.
C21_Monotonic ==
    (call.fn = "translator" /\ call.step >= 1) =>
        /\ call.d1 <= call.d2 => call.s1 <= call.s2
        /\ call.d1 = call.d2 => call.s1 = call.s2
        /\ call.s1 = snowflake_from_datetime(call.d1)

C21_Witness ==
    /\ call.fn = "translator"
    /\ call.step >= 1
    /\ call.d1 < call.d2
    /\ call.s1 < call.s2
    /\ call.s1 > 0

\* the translation there and back: every identifier from a day's own up to
\* the next day's maps back to the day
RoundTrip ==
    \A d \in 1 .. MaxDay :
        /\ date_from_snowflake(snowflake_from_datetime(d)) = d
        /\ \A i \in snowflake_from_datetime(d) .. (snowflake_from_datetime(d + 1) - 1) :
              date_from_snowflake(i) = d

\* the same, on the calls of the two functions
C22_RoundTripOfCalls ==
    (call.fn = "translator" /\ call.step = 2) => call.back = call.d1

\* the positions in the run's log of the message requests of a channel
MessageRequests(g, c) ==
    {i \in DOMAIN discord_log :
        /\ discord_log[i].guild = g
        /\ discord_log[i].kind = "messages"
        /\ discord_log[i].channel = c}

\* the messages the first request of a channel asks for: those above the
\* cursor it sends
AskedFor(g, c) ==
    {m \in upstream.discord.guilds[g].history[c].msgs :
        m > discord_log[Min(MessageRequests(g, c))].after}

\* C22: the translation there and back gives the day, for every identifier
\* of the day; and in a run whose requests succeed, the first request of a
\* channel asks for every message of the channel sent on a missing day.
C22_CursorKeepsTheDay ==
    /\ RoundTrip
    /\ pc = "done" =>
          \A g \in Range(config.discord) :
              AllSucceeded(g) =>
                  \A c \in TextChannels(upstream.discord.guilds[g]) :
                      MessageRequests(g, c) # {} =>
                          \A m \in upstream.discord.guilds[g].history[c].msgs :
                              date_from_snowflake(m)
                                  \in DaysNeeded(NameOf(g), StoreKeys(csv0), today)
                              => m \in AskedFor(g, c)

\* the owners of the call whose listing did not raise
ListedOwners ==
    {o \in Range(parse_github_config(call.g).owners) :
        fetch_repos_for_owner(o, fetch_github_user_login(call.gh.viewer), call.gh).tag = "ok"}

\* the full names in the listing of an owner
NamesListedBy(o) ==
    {r.full_name : r \in Range(fetch_repos_for_owner(o,
                                   fetch_github_user_login(call.gh.viewer), call.gh).repos)}

ListedNames == UNION {NamesListedBy(o) : o \in ListedOwners}

\* the repositories the call discovered: those listed, and the explicit
\* ones that were listed or whose own request succeeded
Discovered ==
    ListedNames \cup
    {n \in Range(parse_github_config(call.g).repos) : call.gh.repos[n].status = "ok"}

SnapshotSources == {"github_stars", "github_forks", "github_open_issues"}

\* C23: the rows fetch_github_repo_stats returns are dated today; each
\* repository full name it discovered has exactly one row for each of the
\* three snapshot sources and there is no other row, so no two rows have the
\* same key, also for a repository listed by two owners or both listed and
\* named explicitly.
C23_ThreeRowsPerRepo ==
    (call.fn = "fetch_github_repo_stats" /\ call.done) =>
        /\ \A i \in DOMAIN call.rows :
              /\ call.rows[i].date = today
              /\ call.rows[i].package \in Discovered
              /\ call.rows[i].source \in SnapshotSources
        /\ \A n \in Discovered : \A src \in SnapshotSources :
              Cardinality({i \in DOMAIN call.rows :
                              call.rows[i].package = n /\ call.rows[i].source = src}) = 1
        /\ Len(call.rows) = 3 * Cardinality(Discovered)
        /\ \A i, j \in DOMAIN call.rows :
              Key(call.rows[i]) = Key(call.rows[j]) => i = j

\* a repository listed by both owners and named explicitly, three rows
C23_Witness ==
    /\ call.fn = "fetch_github_repo_stats"
    /\ call.done
    /\ ListedOwners = TwoOwners
    /\ "octo/app" \in NamesListedBy("octo") \cap NamesListedBy("hub")
    /\ "octo/app" \in Range(parse_github_config(call.g).repos)
    /\ Cardinality({i \in DOMAIN call.rows : call.rows[i].package = "octo/app"}) = 3
    /\ Len(call.rows) > 3
====
